---- MODULE Spec2Model ----
(***************************************************************************)
(* A model of loom's logging facility (src/loom/logger.py): the LoomLogger *)
(* registry (_instances guarded by _lock), the construction of a           *)
(* LoomLogger on top of the process-wide logging.getLogger(name) object,   *)
(* the leveled emit methods and clear_instances.                           *)
(*                                                                         *)
(* The standard library's logging module is modelled by what it does:      *)
(* logging.getLogger(name) returns one shared Logger per name, whose       *)
(* level, propagate flag and handler list outlive every LoomLogger built   *)
(* on it; Logger.callHandlers hands a record to each attached handler      *)
(* whose level it reaches and, when no handler is attached at all, to      *)
(* logging.lastResort (a stderr handler of level WARNING).                 *)
(*                                                                         *)
(* Emit follows a record to the handlers that receive it. The emit_*       *)
(* actions follow it through the handlers into the files: Handler.handle   *)
(* takes the handler's lock, RotatingFileHandler checks the size, rotates  *)
(* and writes the line its formatter makes, and an error in there ends in  *)
(* Handler.handleError. OneLineFormatter.format is also modelled on its    *)
(* own, as a function on strings.                                          *)
(***************************************************************************)
EXTENDS Integers, Sequences, FiniteSets, TLC

\* ---------------------------------------------------------------- bounds
\* Instance objects (LoomLogger or malformed registry entries) ever created.
MaxInst == 2
\* Handler objects ever created.
MaxHandlers == 3
\* Length of the strings given to OneLineFormatter.format on its own.
MaxLen == 4
\* Emit calls one thread makes.
MaxEmits == 4
\* Emit calls made where the text of the records is followed.
MaxTextEmits == 3
\* Emit calls each of the concurrent threads makes.
MaxConcEmits == 2

\* ------------------------------------------------------------- constants
\* logging's severities, ordered DEBUG < INFO < WARNING < ERROR < CRITICAL.
DEBUG == 10
INFO == 20
WARNING == 30
ERROR == 40
CRITICAL == 50

Threads == {"t1", "t2"}
Names == {"a", "b"}
NoThread == "none"
NoInst == 0

\* The levels a caller passes as level= (INFO is the default).
CfgLevels == {INFO, WARNING}
\* log_dir values: "logs" can be created, "blocked" lies under a regular
\* file, so Path.mkdir(parents=True, exist_ok=True) raises there.
LogDirs == {"logs", "blocked"}
Unwritable == {"blocked"}

\* The defaults of max_file_size_mb, backup_count and one_line_file_format.
DefaultMaxFileSizeMb == 10
DefaultBackupCount == 5
DefaultOneLine == TRUE

\* The keyword arguments of __init__ as the registry specifications pass
\* them: level, log_dir and the two toggles vary, the file sink's
\* thresholds and one_line_file_format are left at their defaults.
Cfgs ==
    {c \in [level : CfgLevels, log_dir : LogDirs,
            enable_console : BOOLEAN, enable_file : BOOLEAN,
            max_file_size_mb : {DefaultMaxFileSizeMb},
            backup_count : {DefaultBackupCount},
            one_line_file_format : {DefaultOneLine}] :
        ~c.enable_file => c.log_dir = "logs"}

\* The emit methods and the severity each one logs at.
Methods == {"debug", "info", "warning", "error", "critical", "exception"}

LevelOf(m) ==
    CASE m = "debug" -> DEBUG
      [] m = "info" -> INFO
      [] m = "warning" -> WARNING
      [] m = "error" -> ERROR
      [] m = "critical" -> CRITICAL
      [] m = "exception" -> ERROR

VARIABLES
    instances,  \* cls._instances: name -> instance id
    lock,       \* cls._lock: the thread holding it, or NoThread
    objs,       \* every instance object created, by id (a sequence)
    loggers,    \* logging's Logger per name: level, propagate, handlers
    hdl,        \* every handler object created, by id (a sequence)
    dirs,       \* directories created by _add_file_handler
    files,      \* log files opened (created) by RotatingFileHandler
    pc,         \* each thread's position
    arg,        \* each thread's `name` argument in get_logger
    self,       \* each thread's local `instance` in get_logger
    pending,    \* clear_instances: the instances still to be visited
    snap,       \* clear_instances: the handlers attached to registered loggers at entry
    last,       \* the last emit call and where its record went
    seen,       \* per name: the instances held or returned since the last clear
    cleared,    \* the names clear_instances has removed from the registry
    disk,       \* per log path: the files on disk (0 the active file, k backup .k)
    hlock,      \* the handlers whose lock (Handler.lock) is held
    em,         \* each thread's emit call in progress
    obs,        \* what the emit calls made so far did to the sinks
    text        \* OneLineFormatter.format: the string given and the result

\* The variables of the file sink, the emit calls and the formatter.
sink_vars == <<disk, hlock, em, obs, text>>

vars ==
    <<instances, lock, objs, loggers, hdl, dirs, files, pc, arg, self,
      pending, snap, last, seen, cleared, disk, hlock, em, obs, text>>

NoArg == "none"
NoEmit == [inst |-> NoInst, method |-> "none", sinks |-> {}, stderr |-> FALSE]

\* The log files a file sink can be opened on: log_dir / f"{name}.log".
LogPaths == {<<d, n>> : d \in LogDirs \ Unwritable, n \in Names}

\* No emit call in progress.
NoCall ==
    [id |-> 0, inst |-> NoInst, method |-> "none", msg |-> <<>>, active |-> FALSE,
     exc |-> <<>>, todo |-> <<>>, rolled |-> 0]

\* Nothing emitted yet.
NoObs ==
    [calls |-> [t \in Threads |-> 0], passed |-> {}, written |-> {},
     dropped |-> {}, console |-> {}, stderr |-> {}, failed |-> {},
     raised |-> FALSE]

\* No string given to the formatter yet.
NoText == [in |-> <<>>, out |-> <<>>, done |-> FALSE]

\* Before the first call: no file on disk, no handler lock held, no emit
\* call in progress.
InitSink ==
    /\ disk = [p \in LogPaths |-> <<>>]
    /\ hlock = {}
    /\ em = [t \in Threads |-> NoCall]
    /\ obs = NoObs

\* The class as loaded: an empty registry, a free lock; logging holds a
\* fresh Logger per name.
InitRegistry ==
    /\ instances = <<>>
    /\ lock = NoThread
    /\ objs = <<>>
    /\ loggers = [n \in Names |-> [level |-> 0, propagate |-> TRUE, handlers |-> <<>>]]
    /\ hdl = <<>>
    /\ dirs = {}
    /\ files = {}
    /\ pc = [t \in Threads |-> "idle"]
    /\ arg = [t \in Threads |-> NoArg]
    /\ self = [t \in Threads |-> NoInst]
    /\ pending = [t \in Threads |-> {}]
    /\ snap = [t \in Threads |-> {}]
    /\ last = NoEmit
    /\ seen = [n \in Names |-> {}]
    /\ cleared = {}

Init ==
    /\ InitRegistry
    /\ InitSink
    /\ text = NoText

\* ------------------------------------------------------------ __init__
\* Faulty variant: every instance built on one shared logger, whatever its name.
getLogger_shared(name) == "a"

\* logging.getLogger(name): the one Logger object the process holds for name.
getLogger(name) == name

\* Faulty variant: __init__ without the `if not self._logger.handlers` test.
HandlersEmpty_always(name) == TRUE

\* `if not self._logger.handlers` (read on the logger of `name`).
HandlersEmpty(name) == loggers[getLogger(name)].handlers = <<>>

\* self.log_dir.mkdir(parents=True, exist_ok=True) raises.
MkdirRaises(c) == c.log_dir \in Unwritable

\* _add_console_handler: a StreamHandler at the instance's level.
add_console_handler(c) ==
    <<[kind |-> "console", level |-> c.level, closed |-> FALSE, path |-> <<>>,
       maxBytes |-> 0, backupCount |-> 0, one_line |-> FALSE]>>

\* _add_file_handler: mkdir, then a RotatingFileHandler at the instance's
\* level on log_dir / f"{name}.log", with maxBytes and backupCount from
\* the two thresholds and OneLineFormatter or logging.Formatter as its
\* formatter; nothing is attached when mkdir raises.
add_file_handler(name, c) ==
    IF MkdirRaises(c) THEN <<>>
    ELSE <<[kind |-> "file", level |-> c.level, closed |-> FALSE,
            path |-> <<c.log_dir, name>>,
            maxBytes |-> c.max_file_size_mb * 1024 * 1024,
            backupCount |-> c.backup_count,
            one_line |-> c.one_line_file_format]>>

\* Faulty variant: _setup_handlers with the two toggles taken for each other.
setup_handlers_swapped(name, c) ==
    (IF c.enable_file THEN add_console_handler(c) ELSE <<>>)
        \o (IF c.enable_console THEN add_file_handler(name, c) ELSE <<>>)

\* _setup_handlers: console first, then file, each behind its toggle.
setup_handlers(name, c) ==
    (IF c.enable_console THEN add_console_handler(c) ELSE <<>>)
        \o (IF c.enable_file THEN add_file_handler(name, c) ELSE <<>>)

\* The handler objects one run of __init__ creates and attaches.
NewHandlers(name, c) ==
    IF HandlersEmpty(name) THEN setup_handlers(name, c) ELSE <<>>

\* __init__ ends with the exception of mkdir (after the console handler,
\* if enabled, was attached).
InitRaises(name, c) == HandlersEmpty(name) /\ c.enable_file /\ MkdirRaises(c)

\* The LoomLogger object __init__ leaves behind.
NewInstance(name, c) ==
    [name |-> name, level |-> c.level,
     enable_console |-> c.enable_console, enable_file |-> c.enable_file,
     max_file_size_mb |-> c.max_file_size_mb, backup_count |-> c.backup_count,
     has_logger |-> TRUE, logger |-> getLogger(name)]

\* Threads inside get_logger that may still construct.
InFlight == Cardinality({t \in Threads : pc[t] = "gl_init"})

\* Room for k more constructions within the bounds.
Room(k) == /\ Len(objs) + k <= MaxInst
           /\ Len(hdl) + 2 * k <= MaxHandlers

\* LoomLogger.__init__(name, **c) as one step: store the fields, take the
\* shared logger, set its level, turn propagation off and, when it has no
\* handler, attach the sinks the toggles select. RotatingFileHandler opens
\* its file in append mode, which creates it empty when it is not there.
LoomLogger_init(name, c) ==
    LET new == NewHandlers(name, c)
        ids == [k \in 1..Len(new) |-> Len(hdl) + k]
        opened == {new[k].path : k \in {j \in 1..Len(new) : new[j].kind = "file"}}
    IN  /\ Room(1)
        /\ hdl' = hdl \o new
        /\ loggers' = [loggers EXCEPT ![getLogger(name)] =
                          [level |-> c.level, propagate |-> FALSE,
                           handlers |-> @.handlers \o ids]]
        /\ dirs' = dirs \cup {p[1] : p \in opened}
        /\ files' = files \cup opened
        /\ disk' = [p \in LogPaths |->
                       IF p \in opened /\ 0 \notin DOMAIN disk[p]
                       THEN (0 :> <<>>) @@ disk[p]
                       ELSE disk[p]]
        /\ objs' = IF InitRaises(name, c) THEN objs
                   ELSE Append(objs, NewInstance(name, c))

\* LoomLogger(name, **c) called directly, outside the registry.
Construct(name, c) ==
    /\ Room(InFlight + 1)
    /\ LoomLogger_init(name, c)
    /\ last' = NoEmit
    /\ UNCHANGED <<instances, lock, pc, arg, self, pending, snap, seen, cleared,
                   hlock, em, obs, text>>

\* ---------------------------------------------------------- get_logger
\* Faulty variant: get_logger and clear_instances without the lock.
LockFree_unguarded == TRUE

\* `with cls._lock:` can be entered.
LockFree == lock = NoThread

\* Faulty variant: get_logger without the membership test.
NotRegistered_always(name) == TRUE

\* `name not in cls._instances`.
NotRegistered(name) == name \notin DOMAIN instances

\* cls._instances[name] = instance.
Insert(name, i) ==
    [n \in DOMAIN instances \cup {name} |-> IF n = name THEN i ELSE instances[n]]

\* get_logger(name, **kwargs) is called, takes the registry lock and
\* evaluates `if name not in cls._instances:`. The keyword arguments are
\* read by cls(name, **kwargs) only, so they are drawn at that step.
get_logger_enter(t, name) ==
    /\ pc[t] = "idle"
    /\ LockFree
    /\ NotRegistered(name) => Room(1)
    /\ lock' = t
    /\ pc' = [pc EXCEPT ![t] = IF NotRegistered(name) THEN "gl_init" ELSE "gl_return"]
    /\ arg' = [arg EXCEPT ![t] = name]
    /\ last' = NoEmit
    /\ UNCHANGED <<instances, objs, loggers, hdl, dirs, files, self, pending,
                   snap, seen, cleared>>
    /\ UNCHANGED sink_vars

\* `instance = cls(name, **kwargs)` with keyword arguments c; an exception
\* leaves the with block, which releases the lock, and reaches the caller.
get_logger_init(t, c) ==
    /\ pc[t] = "gl_init"
    /\ LoomLogger_init(arg[t], c)
    /\ IF InitRaises(arg[t], c)
       THEN /\ lock' = NoThread
            /\ pc' = [pc EXCEPT ![t] = "idle"]
            /\ arg' = [arg EXCEPT ![t] = NoArg]
            /\ self' = self
       ELSE /\ lock' = lock
            /\ pc' = [pc EXCEPT ![t] = "gl_insert"]
            /\ arg' = arg
            /\ self' = [self EXCEPT ![t] = Len(objs) + 1]
    /\ last' = NoEmit
    /\ UNCHANGED <<instances, pending, snap, seen, cleared, hlock, em, obs, text>>

\* `cls._instances[name] = instance` and `return cls._instances[name]`,
\* leaving the with block.
get_logger_insert(t) ==
    /\ pc[t] = "gl_insert"
    /\ instances' = Insert(arg[t], self[t])
    /\ seen' = [seen EXCEPT ![arg[t]] = @ \cup {self[t]}]
    /\ self' = [self EXCEPT ![t] = NoInst]
    /\ lock' = NoThread
    /\ pc' = [pc EXCEPT ![t] = "idle"]
    /\ arg' = [arg EXCEPT ![t] = NoArg]
    /\ last' = NoEmit
    /\ UNCHANGED <<objs, loggers, hdl, dirs, files, pending, snap, cleared>>
    /\ UNCHANGED sink_vars

\* `return cls._instances[name]` for a name found registered, leaving the
\* with block.
get_logger_return(t) ==
    /\ pc[t] = "gl_return"
    /\ arg[t] \in DOMAIN instances
    /\ seen' = [seen EXCEPT ![arg[t]] = @ \cup {instances[arg[t]]}]
    /\ lock' = NoThread
    /\ pc' = [pc EXCEPT ![t] = "idle"]
    /\ arg' = [arg EXCEPT ![t] = NoArg]
    /\ last' = NoEmit
    /\ UNCHANGED <<instances, objs, loggers, hdl, dirs, files, self, pending,
                   snap, cleared>>
    /\ UNCHANGED sink_vars

\* ------------------------------------------------------ clear_instances
Range(f) == {f[x] : x \in DOMAIN f}

\* Faulty variant: clear_instances without the hasattr test.
HasLoggerAttr_always(i) == TRUE

\* hasattr(instance, "_logger").
HasLoggerAttr(i) == objs[i].has_logger

\* The handlers attached to the loggers of the well-formed registry entries.
AttachedToRegistered ==
    UNION {Range(loggers[objs[i].logger].handlers) :
             i \in {j \in Range(instances) : objs[j].has_logger}}

\* Faulty variant: clear_instances removing handlers without closing them.
close_skipped(h) == hdl[h]

\* handler.close(): the stream is released and the handler is marked
\* closed. clear_instances detaches it at once, after which nothing refers
\* to it, so only its kind and the mark are kept.
close(h) ==
    [kind |-> hdl[h].kind, level |-> 0, closed |-> TRUE, path |-> <<>>,
     maxBytes |-> 0, backupCount |-> 0, one_line |-> FALSE]

\* clear_instances() is called and takes the registry lock.
clear_instances_enter(t) ==
    /\ pc[t] = "idle"
    /\ LockFree
    /\ lock' = t
    /\ pending' = [pending EXCEPT ![t] = Range(instances)]
    /\ snap' = [snap EXCEPT ![t] = AttachedToRegistered]
    /\ pc' = [pc EXCEPT ![t] = "cl_loop"]
    /\ last' = NoEmit
    /\ UNCHANGED <<instances, objs, loggers, hdl, dirs, files, arg, self, seen,
                   cleared>>
    /\ UNCHANGED sink_vars

\* One turn of `for instance in cls._instances.values()` (in insertion
\* order, which is the order of the ids): behind hasattr, every handler of
\* instance._logger.handlers[:] is closed and removed. Reading _logger on
\* an entry that has none raises AttributeError, which leaves the with
\* block with the registry as it was.
clear_instances_loop(t) ==
    /\ pc[t] = "cl_loop"
    /\ pending[t] # {}
    /\ LET i == CHOOSE j \in pending[t] : \A k \in pending[t] : j <= k
       IN  IF ~HasLoggerAttr(i)
           THEN /\ pending' = [pending EXCEPT ![t] = @ \ {i}]
                /\ UNCHANGED <<loggers, hdl, lock, pc, snap>>
           ELSE IF ~objs[i].has_logger
           THEN /\ lock' = NoThread
                /\ pc' = [pc EXCEPT ![t] = "idle"]
                /\ pending' = [pending EXCEPT ![t] = {}]
                /\ snap' = [snap EXCEPT ![t] = {}]
                /\ UNCHANGED <<loggers, hdl>>
           ELSE LET l == objs[i].logger
                    hs == Range(loggers[l].handlers)
                IN  /\ hdl' = [h \in DOMAIN hdl |->
                                 IF h \in hs THEN close(h)
                                 ELSE hdl[h]]
                    /\ loggers' = [loggers EXCEPT ![l].handlers = <<>>]
                    /\ pending' = [pending EXCEPT ![t] = @ \ {i}]
                    /\ UNCHANGED <<lock, pc, snap>>
    /\ last' = NoEmit
    /\ UNCHANGED <<instances, objs, dirs, files, arg, self, seen, cleared>>
    /\ UNCHANGED sink_vars

\* `cls._instances.clear()`, leaving the with block.
clear_instances_clear(t) ==
    /\ pc[t] = "cl_loop"
    /\ pending[t] = {}
    /\ instances' = <<>>
    /\ seen' = [n \in Names |-> {}]
    /\ cleared' = cleared \cup DOMAIN instances
    /\ snap' = [snap EXCEPT ![t] = {}]
    /\ lock' = NoThread
    /\ pc' = [pc EXCEPT ![t] = "idle"]
    /\ last' = NoEmit
    /\ UNCHANGED <<objs, loggers, hdl, dirs, files, arg, self, pending>>
    /\ UNCHANGED sink_vars

\* LoomLogger._instances[name] = FakeInstance(): an entry without _logger
\* is put under a fresh name while no registry call is running.
InjectIncomplete(name) ==
    /\ lock = NoThread
    /\ NotRegistered(name)
    /\ Len(objs) + InFlight + 1 <= MaxInst
    /\ objs' = Append(objs, [name |-> name, level |-> 0,
                             enable_console |-> FALSE, enable_file |-> FALSE,
                             max_file_size_mb |-> 0, backup_count |-> 0,
                             has_logger |-> FALSE, logger |-> "none"])
    /\ instances' = Insert(name, Len(objs) + 1)
    /\ seen' = [seen EXCEPT ![name] = @ \cup {Len(objs) + 1}]
    /\ last' = NoEmit
    /\ UNCHANGED <<lock, loggers, hdl, dirs, files, pc, arg, self, pending, snap,
                   cleared>>
    /\ UNCHANGED sink_vars

\* ---------------------------------------------------------------- emit
\* Logger.isEnabledFor: the record is created when its severity reaches
\* the logger's level.
isEnabledFor(l, sev) == sev >= loggers[l].level

\* Logger.callHandlers with propagate off: each attached handler whose
\* level the record reaches handles it.
callHandlers(l, sev) ==
    {h \in Range(loggers[l].handlers) : sev >= hdl[h].level}

\* Logger.callHandlers found no handler at all: logging.lastResort, a
\* stderr handler of level WARNING, handles the record.
lastResort(l, sev) == loggers[l].handlers = <<>> /\ sev >= WARNING

\* debug/info/warning/error/critical/exception on instance i, which some
\* caller holds (get_logger has returned it, or it was constructed
\* directly): forwarded to self._logger at the method's severity. `last`
\* keeps the call and where its record went until the next operation.
Emit(i, m) ==
    /\ i \in 1..Len(objs)
    /\ objs[i].has_logger
    /\ \A t \in Threads : self[t] # i
    /\ LET l == objs[i].logger
           sev == LevelOf(m)
           on == isEnabledFor(l, sev)
       IN  last' = [inst |-> i, method |-> m,
                    sinks |-> IF on THEN callHandlers(l, sev) ELSE {},
                    stderr |-> on /\ lastResort(l, sev)]
    /\ UNCHANGED <<instances, lock, objs, loggers, hdl, dirs, files, pc, arg,
                   self, pending, snap, seen, cleared>>
    /\ UNCHANGED sink_vars

\* ------------------------------------------------------ OneLineFormatter
\* A string is a sequence of characters. str.split() without arguments
\* splits on runs of whitespace, among them blank, newline, tab and
\* carriage return.
Whitespace == {" ", "\n", "\t", "\r"}

\* Faulty variant: split(" ") in place of split(), which only knows the blank.
IsSpace_blank_only(ch) == ch = " "

\* str.isspace for one character.
IsSpace(ch) == ch \in Whitespace

RECURSIVE lstrip(_)
\* The string without its leading whitespace.
lstrip(s) == IF s = <<>> \/ ~IsSpace(Head(s)) THEN s ELSE lstrip(Tail(s))

RECURSIVE word(_)
\* The longest prefix of s free of whitespace.
word(s) == IF s = <<>> \/ IsSpace(Head(s)) THEN <<>> ELSE <<Head(s)>> \o word(Tail(s))

RECURSIVE split(_)
\* str.split(): the maximal whitespace-free runs of s, in order.
split(s) ==
    LET r == lstrip(s)
        w == word(r)
    IN  IF r = <<>> THEN <<>>
        ELSE <<w>> \o split(SubSeq(r, Len(w) + 1, Len(r)))

RECURSIVE join(_, _)
\* sep.join(ws).
join(sep, ws) ==
    IF ws = <<>> THEN <<>>
    ELSE IF Len(ws) = 1 THEN ws[1]
    ELSE ws[1] \o sep \o join(sep, Tail(ws))

\* OneLineFormatter.format after super().format(record) has produced
\* original_message: " ".join(original_message.split()).
OneLineFormatter_format(original_message) == join(<<" ">>, split(original_message))

\* The characters the strings given to the formatter are made of.
Alphabet == {"x", " ", "\n", "\t"}

\* The strings of at most n characters.
Strings(n) == UNION {[1..k -> Alphabet] : k \in 0..n}

\* The formatter is given any string of at most MaxLen characters.
InitFormat ==
    /\ InitRegistry
    /\ InitSink
    /\ text \in {[in |-> str, out |-> <<>>, done |-> FALSE] : str \in Strings(MaxLen)}

\* OneLineFormatter.format is applied to the string.
format ==
    /\ ~text.done
    /\ text' = [in |-> text.in, out |-> OneLineFormatter_format(text.in), done |-> TRUE]
    /\ UNCHANGED <<instances, lock, objs, loggers, hdl, dirs, files, pc, arg,
                   self, pending, snap, last, seen, cleared, disk, hlock, em, obs>>

\* ------------------------------------------------------- the file sink
\* A message is a sequence of characters too. Two of them stand for a long
\* run of one character each: "X" for BigChars ASCII letters, "W" for
\* WideChars letters that take two bytes each in the file's encoding
\* (UTF-8); every other element is one character of one byte.
BigChars == 600000
WideChars == 300000

\* len() of one element: the characters it stands for.
CharsOf(e) == CASE e = "X" -> BigChars [] e = "W" -> WideChars [] OTHER -> 1

\* The bytes the stream writes for one element.
BytesOf(e) == CASE e = "X" -> BigChars [] e = "W" -> 2 * WideChars [] OTHER -> 1

RECURSIVE Chars(_)
\* len(s).
Chars(s) == IF s = <<>> THEN 0 ELSE CharsOf(Head(s)) + Chars(Tail(s))

RECURSIVE Bytes(_)
\* The bytes s takes in the file.
Bytes(s) == IF s = <<>> THEN 0 ELSE BytesOf(Head(s)) + Bytes(Tail(s))

RECURSIVE FileSize(_)
\* The size of a file, given as the sequence of the writes made to it.
FileSize(f) == IF f = <<>> THEN 0 ELSE Bytes(Head(f).data) + FileSize(Tail(f))

\* The error that is active when `exception` is called inside an except
\* block, as the test raises it.
ActiveError == [type |-> "ValueError", message |-> <<"e">>]

\* Faulty variant: exception() forwarding to self._logger.error.
exc_info_dropped(m, active) == <<>>

\* The exc_info of the record: Logger.exception passes exc_info=True, so
\* the record takes sys.exc_info(), which is the active error or, outside
\* an except block, (None, None, None); the other methods pass none.
\* Given as the text Formatter.formatException makes of it: the traceback
\* header and frames, then "<type>: <message>".
exc_info(m, active) ==
    IF m # "exception" THEN <<>>
    ELSE IF active
    THEN <<"Traceback", "\n", " ", " ", "File", "\n", ActiveError.type, ":", " ">>
            \o ActiveError.message
    ELSE <<"NoneType", ":", " ", "None">>

\* The name logging gives the severity (%(levelname)s).
levelname(m) ==
    CASE m = "debug" -> "DEBUG"
      [] m = "info" -> "INFO"
      [] m = "warning" -> "WARNING"
      [] m = "error" -> "ERROR"
      [] m = "critical" -> "CRITICAL"
      [] m = "exception" -> "ERROR"

\* logging.Formatter.format with _LOG_FORMAT and _DATE_FORMAT:
\* "name | LEVEL | process | dd-mm-YYYY | HH:MM:SS | message", each field
\* taken as one character; then, when the record has exc_info, a newline
\* (unless the text ends with one) and the exception text.
Formatter_format(name, m, msg, exc) ==
    LET line == <<name, " ", "|", " ", levelname(m), " ", "|", " ", "pid", " ", "|",
                  " ", "date", " ", "|", " ", "time", " ", "|", " ">> \o msg
    IN  IF exc = <<>> THEN line
        ELSE IF line[Len(line)] = "\n" THEN line \o exc
        ELSE line \o <<"\n">> \o exc

\* Faulty variant: the file sink always given logging.Formatter.
file_formatter_plain(h, name, m, msg, exc) == Formatter_format(name, m, msg, exc)

\* The file handler's formatter: OneLineFormatter when
\* one_line_file_format is set, logging.Formatter otherwise.
file_formatter(h, name, m, msg, exc) ==
    IF hdl[h].one_line THEN OneLineFormatter_format(Formatter_format(name, m, msg, exc))
    ELSE Formatter_format(name, m, msg, exc)

\* os.rename(src, dst) among the files of one log path, after
\* os.remove(dst) when dst exists.
rename(f, src, dst) ==
    [k \in (DOMAIN f \ {src}) \cup {dst} |-> IF k = dst THEN f[src] ELSE f[k]]

RECURSIVE shift(_, _)
\* doRollover's loop `for i in range(backupCount - 1, 0, -1)`, from i
\* down: backup .i, when it exists, becomes backup .(i + 1).
shift(f, i) ==
    IF i < 1 THEN f
    ELSE shift(IF i \in DOMAIN f THEN rename(f, i, i + 1) ELSE f, i - 1)

\* Faulty variant: doRollover whose loop starts at backupCount, so that
\* backup .backupCount is kept as .(backupCount + 1).
doRollover_from_top(f, backupCount) ==
    LET g == IF backupCount > 0
             THEN LET sh == shift(f, backupCount)
                  IN  IF 0 \in DOMAIN sh THEN rename(sh, 0, 1) ELSE sh
             ELSE f
    IN  IF 0 \in DOMAIN g THEN g ELSE (0 :> <<>>) @@ g

\* RotatingFileHandler.doRollover on the files f of the handler's path:
\* with backupCount > 0 the backups move up by one and the active file
\* becomes backup .1; then the stream is opened again in append mode, which
\* creates the active file when it is not there.
doRollover(f, backupCount) ==
    LET g == IF backupCount > 0
             THEN LET sh == shift(f, backupCount - 1)
                  IN  IF 0 \in DOMAIN sh THEN rename(sh, 0, 1) ELSE sh
             ELSE f
    IN  IF 0 \in DOMAIN g THEN g ELSE (0 :> <<>>) @@ g

\* RotatingFileHandler.shouldRollover: with maxBytes > 0, the position at
\* the end of the stream plus len("%s\n" % self.format(record)) reaches
\* maxBytes.
shouldRollover(h, line) ==
    /\ hdl[h].maxBytes > 0
    /\ FileSize(disk[hdl[h].path][0]) + Chars(line) + 1 >= hdl[h].maxBytes

\* Faulty variant: a handler whose emit lets the exception through.
handleError_raises == TRUE

\* Handler.handleError, which BaseRotatingHandler.emit and
\* StreamHandler.emit call from `except Exception`: the error is printed
\* on stderr; whether it leaves emit.
handleError == FALSE

\* Faulty variant: handlers without a lock of their own.
HandlerLockFree_unguarded(h) == TRUE

\* Handler.handle can take the handler's lock (Handler.acquire).
HandlerLockFree(h) == h \notin hlock

\* The ids of the records in the files f.
Ids(f) == UNION {{f[k][j].id : j \in 1..Len(f[k])} : k \in DOMAIN f}

\* LoomLogger.<m>(msg) is called by thread t on instance i, inside an
\* except block (active) or not: Logger.<m> drops the record when
\* isEnabledFor says so; otherwise Logger.callHandlers goes through the
\* handlers of the logger, or hands the record to logging.lastResort when
\* there is none.
emit_call(t, i, m, msg, active) ==
    /\ pc[t] = "idle"
    /\ i \in 1..Len(objs)
    /\ objs[i].has_logger
    /\ \A u \in Threads : self[u] # i
    /\ obs.calls[t] < MaxEmits
    /\ LET l == objs[i].logger
           sev == LevelOf(m)
           id == obs.calls["t1"] + obs.calls["t2"] + 1
           on == isEnabledFor(l, sev)
       IN  /\ obs' = [obs EXCEPT
                         !.calls[t] = @ + 1,
                         !.raised = FALSE,
                         !.passed = IF on THEN @ \cup {id} ELSE @,
                         !.stderr = IF on /\ lastResort(l, sev) THEN @ \cup {id} ELSE @]
           /\ em' = [em EXCEPT ![t] =
                        [id |-> id, inst |-> i, method |-> m, msg |-> msg,
                         active |-> active, exc |-> exc_info(m, active),
                         todo |-> IF on THEN loggers[l].handlers ELSE <<>>,
                         rolled |-> 0]]
           /\ pc' = [pc EXCEPT ![t] = "em_handle"]
    /\ UNCHANGED <<instances, lock, objs, loggers, hdl, dirs, files, arg, self,
                   pending, snap, last, seen, cleared, disk, hlock, text>>

\* The call of thread t returns to its caller.
emit_return(t) ==
    /\ pc' = [pc EXCEPT ![t] = "idle"]
    /\ em' = [em EXCEPT ![t] = NoCall]

\* The next handler of callHandlers' loop in thread t: skipped when the
\* record is below its level; a console handler takes its lock, writes
\* the record to the stream and releases the lock; a file handler takes
\* its lock and BaseRotatingHandler.emit evaluates shouldRollover. After
\* the last handler the call returns.
emit_handle(t) ==
    /\ pc[t] = "em_handle"
    /\ IF em[t].todo = <<>>
       THEN /\ emit_return(t)
            /\ UNCHANGED <<hlock, obs>>
       ELSE LET h == Head(em[t].todo)
                o == objs[em[t].inst]
                line == file_formatter(h, o.name, em[t].method, em[t].msg, em[t].exc)
            IN  IF LevelOf(em[t].method) < hdl[h].level
                THEN /\ em' = [em EXCEPT ![t].todo = Tail(@)]
                     /\ UNCHANGED <<pc, hlock, obs>>
                ELSE /\ HandlerLockFree(h)
                     /\ IF hdl[h].kind = "console"
                        THEN /\ obs' = [obs EXCEPT !.console = @ \cup {em[t].id}]
                             /\ em' = [em EXCEPT ![t].todo = Tail(@)]
                             /\ UNCHANGED <<pc, hlock>>
                        ELSE /\ hlock' = hlock \cup {h}
                             /\ pc' = [pc EXCEPT ![t] =
                                          IF shouldRollover(h, line) THEN "em_roll"
                                          ELSE "em_write"]
                             /\ UNCHANGED <<em, obs>>
    /\ UNCHANGED <<instances, lock, objs, loggers, hdl, dirs, files, arg, self,
                   pending, snap, last, seen, cleared, disk, text>>

\* The handler of thread t is done with the record because emit raised
\* inside its try block: handleError, the lock is released, and the call
\* goes on with the next handler unless the error leaves emit.
emit_failed(t) ==
    /\ hlock' = hlock \ {Head(em[t].todo)}
    /\ IF handleError
       THEN /\ emit_return(t)
            /\ obs' = [obs EXCEPT !.failed = @ \cup {em[t].id}, !.raised = TRUE]
       ELSE /\ em' = [em EXCEPT ![t].todo = Tail(@)]
            /\ pc' = [pc EXCEPT ![t] = "em_handle"]
            /\ obs' = [obs EXCEPT !.failed = @ \cup {em[t].id}]

\* doRollover in thread t, which succeeds (ok) or fails on its first
\* os.rename or os.remove with an OSError.
emit_roll(t, ok) ==
    /\ pc[t] = "em_roll"
    /\ LET h == Head(em[t].todo)
           p == hdl[h].path
           f == doRollover(disk[p], hdl[h].backupCount)
       IN  IF ok
           THEN /\ disk' = [disk EXCEPT ![p] = f]
                /\ obs' = [obs EXCEPT !.dropped = @ \cup (Ids(disk[p]) \ Ids(f))]
                /\ em' = [em EXCEPT ![t].rolled = @ + 1]
                /\ pc' = [pc EXCEPT ![t] = "em_write"]
                /\ UNCHANGED hlock
           ELSE /\ emit_failed(t)
                /\ UNCHANGED disk
    /\ UNCHANGED <<instances, lock, objs, loggers, hdl, dirs, files, arg, self,
                   pending, snap, last, seen, cleared, text>>

\* FileHandler.emit in thread t: stream.write(msg + terminator) and
\* flush, which succeed (ok) or fail with an OSError; then the handler's
\* lock is released.
emit_write(t, ok) ==
    /\ pc[t] = "em_write"
    /\ LET h == Head(em[t].todo)
           p == hdl[h].path
           o == objs[em[t].inst]
           line == file_formatter(h, o.name, em[t].method, em[t].msg, em[t].exc)
       IN  IF ok
           THEN /\ disk' = [disk EXCEPT ![p][0] =
                               Append(@, [id |-> em[t].id, data |-> line \o <<"\n">>])]
                /\ obs' = [obs EXCEPT !.written = @ \cup {em[t].id}]
                /\ hlock' = hlock \ {h}
                /\ em' = [em EXCEPT ![t].todo = Tail(@)]
                /\ pc' = [pc EXCEPT ![t] = "em_handle"]
           ELSE /\ emit_failed(t)
                /\ UNCHANGED disk
    /\ UNCHANGED <<instances, lock, objs, loggers, hdl, dirs, files, arg, self,
                   pending, snap, last, seen, cleared, text>>

\* The file sink's thresholds as callers set them, the invalid ones among
\* them; the file sink is on.
RotateCfgs ==
    [level : {INFO}, log_dir : {"logs"}, enable_console : {FALSE},
     enable_file : {TRUE}, max_file_size_mb : {0, 1}, backup_count : {0, 1, 2},
     one_line_file_format : {DefaultOneLine}]

\* Messages: a short one, a long ASCII one, a long one of two-byte letters.
RotateMsgs == {<<"x">>, <<"X">>, <<"W">>}

\* The configurations where the text of the records matters: any level
\* filter, any toggles, one_line_file_format on or off, default thresholds.
TextCfgs ==
    [level : {INFO, CRITICAL}, log_dir : {"logs"}, enable_console : BOOLEAN,
     enable_file : BOOLEAN, max_file_size_mb : {DefaultMaxFileSizeMb},
     backup_count : {DefaultBackupCount}, one_line_file_format : BOOLEAN]

\* Messages of one line, of two lines with a run of whitespace, and with a
\* newline at the end.
TextMsgs == {<<"x">>, <<"x", "\n", " ", "x">>, <<"x", "\n">>}

\* The methods called there.
TextMethods == {"debug", "error", "exception"}

\* The configurations where sink I/O fails: a file sink that rotates,
\* with or without the console sink.
FaultCfgs ==
    [level : {INFO}, log_dir : {"logs"}, enable_console : BOOLEAN,
     enable_file : {TRUE}, max_file_size_mb : {1}, backup_count : {1},
     one_line_file_format : {DefaultOneLine}]

\* The configurations the concurrent threads emit on: a file sink that
\* rotates, keeping one backup or the default five.
ConcCfgs ==
    [level : {INFO}, log_dir : {"logs"}, enable_console : {FALSE},
     enable_file : {TRUE}, max_file_size_mb : {1},
     backup_count : {1, DefaultBackupCount},
     one_line_file_format : {DefaultOneLine}]

\* A short and a long message.
SizeMsgs == {<<"x">>, <<"X">>}

\* ------------------------------------------------------- specifications
get_logger(t) ==
    \/ \E name \in Names : get_logger_enter(t, name)
    \/ \E c \in Cfgs : get_logger_init(t, c)
    \/ get_logger_insert(t)
    \/ get_logger_return(t)

clear_instances(t) ==
    \/ clear_instances_enter(t)
    \/ clear_instances_loop(t)
    \/ clear_instances_clear(t)

\* Registry calls from every thread, with direct constructions and
\* incomplete registry entries in between.
Next ==
    \/ \E t \in Threads : get_logger(t)
    \/ \E t \in Threads : clear_instances(t)
    \/ \E name \in Names, c \in Cfgs : Construct(name, c)
    \/ \E name \in Names : InjectIncomplete(name)

Spec == Init /\ [][Next]_vars

\* The thread whose registry calls the emit specifications follow.
Caller == "t1"

\* The exposed operations only: get_logger and clear_instances step by
\* step, and emit calls on any instance at any point between the steps.
NextAPI ==
    \/ get_logger(Caller)
    \/ clear_instances(Caller)
    \/ \E i \in 1..MaxInst, m \in Methods : Emit(i, m)

SpecAPI == Init /\ [][NextAPI]_vars

\* The same, with direct constructions.
NextEmit ==
    \/ get_logger(Caller)
    \/ clear_instances(Caller)
    \/ \E i \in 1..MaxInst, m \in Methods : Emit(i, m)
    \/ \E name \in Names, c \in Cfgs : Construct(name, c)

SpecEmit == Init /\ [][NextEmit]_vars

\* One caller builds a logger with a file sink of any thresholds through
\* get_logger and emits records of any size on it.
NextRotate ==
    \/ get_logger_enter(Caller, "a")
    \/ \E c \in RotateCfgs : get_logger_init(Caller, c)
    \/ get_logger_insert(Caller)
    \/ get_logger_return(Caller)
    \/ \E i \in 1..MaxInst, msg \in RotateMsgs : emit_call(Caller, i, "info", msg, FALSE)
    \/ emit_handle(Caller)
    \/ emit_roll(Caller, TRUE)
    \/ emit_write(Caller, TRUE)

SpecRotate == Init /\ [][NextRotate]_vars

\* One caller builds a logger of any toggles, level and file format
\* through get_logger and calls debug, error and exception on it, inside an
\* except block or not.
NextText ==
    \/ get_logger_enter(Caller, "a")
    \/ \E c \in TextCfgs : get_logger_init(Caller, c)
    \/ get_logger_insert(Caller)
    \/ get_logger_return(Caller)
    \/ \E i \in 1..MaxInst, m \in TextMethods, msg \in TextMsgs, active \in BOOLEAN :
          /\ obs.calls[Caller] < MaxTextEmits
          /\ emit_call(Caller, i, m, msg, active)
    \/ emit_handle(Caller)
    \/ emit_write(Caller, TRUE)

SpecText == Init /\ [][NextText]_vars

\* One caller builds a logger with a rotating file sink and emits on it,
\* while any rotation and any write to the file may fail.
NextFault ==
    \/ get_logger_enter(Caller, "a")
    \/ \E c \in FaultCfgs : get_logger_init(Caller, c)
    \/ get_logger_insert(Caller)
    \/ get_logger_return(Caller)
    \/ \E i \in 1..MaxInst, msg \in SizeMsgs : emit_call(Caller, i, "error", msg, FALSE)
    \/ emit_handle(Caller)
    \/ \E ok \in BOOLEAN : emit_roll(Caller, ok)
    \/ \E ok \in BOOLEAN : emit_write(Caller, ok)

SpecFault == Init /\ [][NextFault]_vars

\* One caller builds a logger with a rotating file sink, and every thread
\* emits on it, MaxConcEmits times each.
NextConc ==
    \/ get_logger_enter(Caller, "a")
    \/ \E c \in ConcCfgs : get_logger_init(Caller, c)
    \/ get_logger_insert(Caller)
    \/ get_logger_return(Caller)
    \/ \E t \in Threads, i \in 1..MaxInst, msg \in SizeMsgs :
          /\ obs.calls[t] < MaxConcEmits
          /\ emit_call(t, i, "info", msg, FALSE)
    \/ \E t \in Threads : emit_handle(t)
    \/ \E t \in Threads : emit_roll(t, TRUE)
    \/ \E t \in Threads : emit_write(t, TRUE)

SpecConc == Init /\ [][NextConc]_vars

\* The formatter alone, on every string of at most MaxLen characters.
NextFormat == format

SpecFormat == InitFormat /\ [][NextFormat]_vars

\* ---------------------------------------------------------------- claims
Attached(n) == Range(loggers[n].handlers)

\* A step of thread t inside get_logger, and the name it is called with.
GetLoggerStep(t) ==
    \/ pc[t] = "idle" /\ pc'[t] \in {"gl_init", "gl_return"}
    \/ pc[t] \in {"gl_init", "gl_insert", "gl_return"} /\ pc'[t] # pc[t]

GetLoggerName(t) == IF pc[t] = "idle" THEN arg'[t] ELSE arg[t]

\* clear_instances ends in thread t (it returns, or an exception leaves it).
ClearEnds(t) == pc[t] = "cl_loop" /\ pc'[t] = "idle"

\* The registry entry clear_instances visits next in thread t.
Visited(t) == CHOOSE j \in pending[t] : \A k \in pending[t] : j <= k

\* C1: for every name, all get_logger calls between two clear_instances
\* return one and the same instance, and the registry never holds another
\* one for that name, whichever threads call; a well-formed instance wraps
\* the logger of its name.
C1_SameInstance ==
    \A n \in Names :
        /\ Cardinality(seen[n]) <= 1
        /\ n \in DOMAIN instances => seen[n] = {instances[n]}
        /\ \A i \in seen[n] : objs[i].has_logger => objs[i].logger = n

\* A second get_logger call on a name is about to return the instance the
\* first call built and returned.
C1_Witness ==
    \E t \in Threads :
        /\ pc[t] = "gl_return"
        /\ arg[t] \in DOMAIN instances
        /\ objs[instances[arg[t]]].has_logger
        /\ seen[arg[t]] = {instances[arg[t]]}

\* No logger carries a handler twice, nor two handlers of one kind.
NoDuplicateHandlers ==
    \A n \in Names :
        \A j, k \in 1..Len(loggers[n].handlers) :
            j # k => /\ loggers[n].handlers[j] # loggers[n].handlers[k]
                     /\ hdl[loggers[n].handlers[j]].kind # hdl[loggers[n].handlers[k]].kind

\* C2: once the logger of a name has sinks attached, no step of any
\* get_logger call on that name changes the handlers attached to it, and no
\* handler is ever attached twice.
C2_IdempotentAttachment ==
    /\ []NoDuplicateHandlers
    /\ [][\A t \in Threads :
            (GetLoggerStep(t) /\ loggers[GetLoggerName(t)].handlers # <<>>)
                => /\ loggers'[GetLoggerName(t)].handlers = loggers[GetLoggerName(t)].handlers
                   /\ \A h \in Attached(GetLoggerName(t)) : hdl'[h] = hdl[h]]_vars

\* A further get_logger call is running on a registered name whose logger
\* carries both sinks.
C2_Witness ==
    \E t \in Threads :
        /\ pc[t] = "gl_return"
        /\ Len(loggers[arg[t]].handlers) = 2

\* C4: a get_logger call on a registered name goes straight to its return
\* without constructing, whatever keyword arguments it is given, and leaves
\* the registry, every instance's fields, every logger's level and handler
\* list and every handler as they were; it returns the registered instance.
C4_RepeatCallUnchanged ==
    [][\A t \in Threads :
         /\ (pc[t] = "idle" /\ pc'[t] \in {"gl_init", "gl_return"}
                /\ arg'[t] \in DOMAIN instances)
               => /\ pc'[t] = "gl_return"
                  /\ UNCHANGED <<instances, objs, loggers, hdl, dirs, files>>
         /\ (pc[t] = "gl_return" /\ pc'[t] = "idle")
               => /\ UNCHANGED <<instances, objs, loggers, hdl, dirs, files>>
                  /\ instances[arg[t]] \in seen'[arg[t]]]_vars

\* A get_logger call found a registered WARNING logger with a sink.
C4_Witness ==
    \E t \in Threads :
        /\ pc[t] = "gl_return"
        /\ arg[t] \in DOMAIN instances
        /\ objs[instances[arg[t]]].level = WARNING
        /\ loggers[arg[t]].level = WARNING
        /\ loggers[arg[t]].handlers # <<>>

\* C5: when clear_instances returns, the registry is empty and every
\* handler that was attached to a registered logger when the call began is
\* closed and attached to no logger.
C5_ClearClosesAll ==
    [][\A t \in Threads :
         ClearEnds(t)
            => /\ instances' = <<>>
               /\ \A h \in snap[t] :
                     /\ hdl'[h].closed
                     /\ \A n \in Names : h \notin Range(loggers'[n].handlers)]_vars

\* clear_instances has visited two registered loggers, three handlers in
\* all, and is about to empty the registry.
C5_Witness ==
    \E t \in Threads :
        /\ pc[t] = "cl_loop"
        /\ pending[t] = {}
        /\ Cardinality(DOMAIN instances) = 2
        /\ Cardinality(snap[t]) = 3
        /\ \A h \in snap[t] : hdl[h].closed

\* C6: clear_instances visits a registry entry without _logger by skipping
\* it (no exception, no handler touched) and still ends with the registry
\* empty and the handlers of the well-formed entries closed and detached.
C6_ToleratesIncomplete ==
    [][\A t \in Threads :
         /\ (pc[t] = "cl_loop" /\ pending[t] # {} /\ pc'[t] # pc[t])
               => objs[Visited(t)].has_logger
         /\ (pc[t] = "cl_loop" /\ pending[t] # {} /\ ~objs[Visited(t)].has_logger
                /\ pending'[t] # pending[t])
               => /\ pending'[t] = pending[t] \ {Visited(t)}
                  /\ UNCHANGED <<loggers, hdl, instances>>
         /\ (ClearEnds(t) /\ \E i \in Range(instances) : ~objs[i].has_logger)
               => /\ instances' = <<>>
                  /\ \A h \in snap[t] :
                        /\ hdl'[h].closed
                        /\ \A n \in Names : h \notin Range(loggers'[n].handlers)]_vars

\* clear_instances has gone through a registry holding an incomplete entry
\* next to a logger with sinks, and is about to empty the registry.
C6_Witness ==
    \E t \in Threads :
        /\ pc[t] = "cl_loop"
        /\ pending[t] = {}
        /\ \E i \in Range(instances) : ~objs[i].has_logger
        /\ \E i \in Range(instances) : objs[i].has_logger
        /\ snap[t] # {}
        /\ \A h \in snap[t] : hdl[h].closed

\* The kinds of the handlers in list hs, read in handler table H.
KindsOf(hs, H) == [k \in 1..Len(hs) |-> H[hs[k]].kind]

\* The sinks an instance's toggles ask for, in the order of _setup_handlers.
Required(o) ==
    (IF o.enable_console THEN <<"console">> ELSE <<>>)
        \o (IF o.enable_file THEN <<"file">> ELSE <<>>)

\* The instances of distinct names are distinct, wrap distinct loggers and
\* share no handler.
DistinctNamesDistinctSinks ==
    /\ \A n1, n2 \in DOMAIN instances :
          n1 # n2 => instances[n1] # instances[n2]
    /\ \A i, j \in 1..Len(objs) :
          (objs[i].has_logger /\ objs[j].has_logger /\ objs[i].name # objs[j].name)
             => /\ objs[i].logger # objs[j].logger
                /\ Attached(objs[i].logger) \cap Attached(objs[j].logger) = {}
    /\ \A n1, n2 \in Names : n1 # n2 => Attached(n1) \cap Attached(n2) = {}

\* The step constructs for name n, or is clear_instances visiting the
\* instance of name n.
OperatesOn(n) ==
    \E t \in Threads :
        \/ pc[t] = "gl_init" /\ arg[t] = n /\ pc'[t] # "gl_init"
        \/ /\ pc[t] = "cl_loop" /\ pending[t] # {}
           /\ objs[Visited(t)].has_logger /\ objs[Visited(t)].name = n

\* C3: the loggers get_logger returns for distinct names are distinct
\* instances on distinct loggers that share no handler; a step that changes
\* the handler list of a name's logger, or one of its handlers, is a
\* construction for that name or clear_instances visiting that name's
\* instance, and an emit changes no logger and no handler.
C3_IndependentSinks ==
    /\ []DistinctNamesDistinctSinks
    /\ [][/\ \A n \in Names :
               (\/ loggers'[n].handlers # loggers[n].handlers
                \/ \E h \in Attached(n) : hdl'[h] # hdl[h])
                  => OperatesOn(n)
          /\ last' # NoEmit => UNCHANGED <<loggers, hdl, instances>>]_vars

\* Both names are registered with sinks of their own, and a record has just
\* reached the sink of one of them.
C3_Witness ==
    /\ DOMAIN instances = Names
    /\ \A n \in Names : objs[instances[n]].has_logger /\ Attached(n) # {}
    /\ last.inst # NoInst
    /\ last.sinks # {}

\* C7: a registry entry is removed or replaced, and a sink is closed, only
\* by a clear_instances step; and a get_logger call that builds an instance
\* for a name cleared before leaves that name's logger with exactly the
\* sinks the call's toggles ask for.
C7_OnlyClearDestroys ==
    [][/\ \A n \in DOMAIN instances :
            (n \notin DOMAIN instances' \/ instances'[n] # instances[n])
               => \E t \in Threads : ClearEnds(t)
       /\ \A h \in 1..Len(hdl) :
            (~hdl[h].closed /\ hdl'[h].closed)
               => \E t \in Threads : pc[t] = "cl_loop" /\ pending[t] # {}
       /\ \A t \in Threads :
            (pc[t] = "gl_init" /\ pc'[t] = "gl_insert" /\ arg[t] \in cleared)
               => KindsOf(loggers'[arg[t]].handlers, hdl') = Required(objs'[Len(objs')])]_vars

\* A record handed to a logger that has handlers reaches exactly those of
\* them whose level it reaches, if it reaches the logger's level, and
\* nothing else.
EmitReachesAttached ==
    (last.inst # NoInst /\ Attached(objs[last.inst].logger) # {})
       => LET l == objs[last.inst].logger
              sev == LevelOf(last.method)
          IN  /\ last.sinks = IF sev >= loggers[l].level
                              THEN {h \in Attached(l) : sev >= hdl[h].level}
                              ELSE {}
              /\ ~last.stderr

\* C8: a construction that finds its logger without handlers and succeeds
\* leaves it with exactly the sinks its toggles select (console only, file
\* only, or console then file), open and at the instance's level; and a
\* record that passes the level filter reaches exactly the attached sinks.
C8_SinksFollowToggles ==
    /\ []EmitReachesAttached
    /\ [][(/\ Len(objs') = Len(objs) + 1
           /\ objs'[Len(objs')].has_logger
           /\ loggers[objs'[Len(objs')].name].handlers = <<>>)
            => LET o == objs'[Len(objs')]
                   hs == loggers'[o.name].handlers
               IN  /\ KindsOf(hs, hdl') = Required(o)
                   /\ \A k \in 1..Len(hs) :
                         /\ ~hdl'[hs[k]].closed
                         /\ hdl'[hs[k]].level = o.level
                         /\ hs[k] > Len(hdl)]_vars

\* A record has reached the console and the file sink of a logger built
\* with both toggles on.
C8_Witness ==
    /\ last.inst # NoInst
    /\ objs[last.inst].enable_console
    /\ objs[last.inst].enable_file
    /\ {hdl[h].kind : h \in last.sinks} = {"console", "file"}
    /\ Cardinality(last.sinks) = 2

\* C9: a logger built with both toggles off is built without creating a
\* directory or a file, and an emit on it at any severity writes to no sink
\* and to no stream.
C9_DisabledSilent ==
    /\ [](\A i \in 1..Len(objs) :
            (last.inst = i /\ ~objs[i].enable_console /\ ~objs[i].enable_file)
               => last.sinks = {} /\ ~last.stderr)
    /\ [][(/\ Len(objs') = Len(objs) + 1
           /\ ~objs'[Len(objs')].enable_console
           /\ ~objs'[Len(objs')].enable_file)
            => UNCHANGED <<dirs, files>>]_vars

\* C10: a record is written to a sink only if its severity reaches the
\* minimum level the logger was built with and the sink's own level; a
\* logger built with level=WARNING writes nothing for debug and info.
C10_SeverityFilter ==
    last.inst # NoInst
       => LET o == objs[last.inst]
              sev == LevelOf(last.method)
          IN  /\ \A h \in last.sinks : sev >= o.level /\ sev >= hdl[h].level
              /\ (o.level = WARNING /\ last.method \in {"debug", "info"})
                    => last.sinks = {} /\ ~last.stderr

\* Every construction run for name n so far has failed: n was never
\* registered (entries leave the registry through clear_instances only),
\* yet __init__ has set the level of n's logger. Read under SpecAPI, where
\* every construction is made by get_logger.
FailedBefore(n) ==
    /\ n \notin DOMAIN instances
    /\ n \notin cleared
    /\ loggers[n].level # 0

\* C14: a get_logger call whose construction raises leaves the name
\* unregistered and the registry lock released; and a retry on that name
\* that succeeds returns a logger whose sinks are exactly those its toggles
\* enable, each created by the retry and none left from the failed attempt.
C14_RetryAfterFailure ==
    [][\A t \in Threads :
         /\ (pc[t] = "gl_init" /\ pc'[t] = "idle")
               => /\ arg[t] \notin DOMAIN instances'
                  /\ lock' = NoThread
         /\ (pc[t] = "gl_init" /\ pc'[t] = "gl_insert" /\ FailedBefore(arg[t]))
               => LET o == objs'[Len(objs')]
                      hs == loggers'[arg[t]].handlers
                  IN  /\ KindsOf(hs, hdl') = Required(o)
                      /\ \A k \in 1..Len(hs) : hs[k] > Len(hdl)]_vars

\* The step calls mkdir and opens a log file (a file handler is created),
\* or closes a handler.
SinkIO ==
    \/ dirs' # dirs
    \/ \E h \in (Len(hdl) + 1)..Len(hdl') : hdl'[h].kind = "file"
    \/ \E h \in 1..Len(hdl) : ~hdl[h].closed /\ hdl'[h].closed

\* C20: the registry is changed only by a thread holding the registry
\* lock, and no directory creation, file open or handler close is made
\* while the registry lock is held.
C20_NoIOUnderLock ==
    [][/\ instances' # instances => lock # NoThread
       /\ SinkIO => lock = NoThread]_vars

\* The positions of s that hold no whitespace.
NonWs(s) == {i \in 1..Len(s) : s[i] \notin Whitespace}

\* The position of the k-th character of s that is no whitespace.
Nth(s, k) == CHOOSE i \in NonWs(s) : Cardinality({j \in NonWs(s) : j <= i}) = k

\* "Line 1\nLine 2\n  Line 3" and "Line 1 Line 2 Line 3".
ExampleIn ==
    <<"L", "i", "n", "e", " ", "1", "\n", "L", "i", "n", "e", " ", "2", "\n",
      " ", " ", "L", "i", "n", "e", " ", "3">>

ExampleOut ==
    <<"L", "i", "n", "e", " ", "1", " ", "L", "i", "n", "e", " ", "2", " ",
      "L", "i", "n", "e", " ", "3">>

\* C17: for every string the formatter returns the string's characters that
\* are no whitespace, in order, with one blank exactly where the string had
\* a run of whitespace between two of them, so without leading or trailing
\* whitespace and without newline; the empty and the all-whitespace string
\* give the empty string, the example gives "Line 1 Line 2 Line 3", and the
\* result is a fixed point of the formatter.
C17_NormalizerTotal ==
    /\ OneLineFormatter_format(<<>>) = <<>>
    /\ OneLineFormatter_format(ExampleIn) = ExampleOut
    /\ text.done =>
         LET n == Cardinality(NonWs(text.in))
         IN  /\ Cardinality(NonWs(text.out)) = n
             /\ \A i \in 1..Len(text.out) : i \notin NonWs(text.out) => text.out[i] = " "
             /\ n = 0 => text.out = <<>>
             /\ n > 0 => Nth(text.out, 1) = 1 /\ Nth(text.out, n) = Len(text.out)
             /\ \A k \in 1..n : text.out[Nth(text.out, k)] = text.in[Nth(text.in, k)]
             /\ \A k \in 1..(n - 1) :
                   Nth(text.out, k + 1) - Nth(text.out, k) =
                       IF Nth(text.in, k + 1) - Nth(text.in, k) > 1 THEN 2 ELSE 1
             /\ OneLineFormatter_format(text.out) = text.out

\* The formatter has been given a string with a newline and a run of two
\* whitespace characters between two other characters.
C17_Witness ==
    /\ text.done
    /\ Len(text.in) = MaxLen
    /\ \E i \in 1..Len(text.in) : text.in[i] = "\n"
    /\ \E i \in 2..(Len(text.in) - 2) :
          /\ text.in[i] \in Whitespace /\ text.in[i + 1] \in Whitespace
          /\ text.in[i - 1] \notin Whitespace /\ text.in[i + 2] \notin Whitespace

\* The open file handlers, which are the attached ones.
FileSinks == {h \in 1..Len(hdl) : hdl[h].kind = "file" /\ ~hdl[h].closed}

\* The ids of the records in one file.
IdsOf(file) == {file[j].id : j \in 1..Len(file)}

\* Thread t's doRollover step, on handler h.
RollStep(t, h) ==
    pc[t] = "em_roll" /\ pc'[t] = "em_write" /\ h = Head(em[t].todo)

\* C11: a file sink with backup_count = B never has a backup beyond .B on
\* disk; a rotation makes the active file backup .1 and every backup .k
\* below B backup .(k + 1), and the content of backup .B, when there is
\* one, is deleted; every record of the active file is more recent than
\* every record of a backup, backup .k holds more recent records than
\* backup .(k + 1), and, outside an emit that is about to write, the
\* record written last is in the active file.
C11_BackupsBounded ==
    /\ [](\A h \in FileSinks :
            LET f == disk[hdl[h].path]
            IN  /\ \A k \in DOMAIN f : k = 0 \/ k <= hdl[h].backupCount
                /\ \A k1, k2 \in DOMAIN f :
                      k1 < k2 => \A a \in IdsOf(f[k1]), b \in IdsOf(f[k2]) : a > b
                /\ (\A t \in Threads : pc[t] # "em_write")
                      => \A a \in obs.written :
                            (\A b \in obs.written : b <= a) => a \in IdsOf(f[0]))
    /\ [][\A t \in Threads, h \in FileSinks :
            (RollStep(t, h) /\ hdl[h].backupCount > 0)
               => LET f == disk[hdl[h].path]
                      g == disk'[hdl[h].path]
                      B == hdl[h].backupCount
                  IN  /\ g[0] = <<>>
                      /\ g[1] = f[0]
                      /\ \A k \in DOMAIN f : (k >= 1 /\ k < B) => g[k + 1] = f[k]
                      /\ B \in DOMAIN f
                            => /\ IdsOf(f[B]) \subseteq obs'.dropped
                               /\ IdsOf(f[B]) \cap Ids(g) = {}]_vars

\* A sink with backup_count = 2 has rotated a third time: both backups are
\* there, the oldest content is gone, and a record was written since.
C11_Witness ==
    \E h \in FileSinks :
        /\ hdl[h].backupCount = 2
        /\ DOMAIN disk[hdl[h].path] = {0, 1, 2}
        /\ obs.dropped # {}
        /\ disk[hdl[h].path][0] # <<>>
        /\ pc[Caller] = "idle"

\* Thread t's handler step on file handler h, where shouldRollover decides.
CheckStep(t, h) ==
    /\ pc[t] = "em_handle" /\ pc'[t] \in {"em_roll", "em_write"}
    /\ h = Head(em[t].todo)

\* Thread t's write step on file handler h.
WriteStep(t, h) ==
    pc[t] = "em_write" /\ pc'[t] = "em_handle" /\ h = Head(em[t].todo)

\* The line thread t's record makes in file handler h, with its newline.
LineOf(t, h) ==
    file_formatter(h, objs[em[t].inst].name, em[t].method, em[t].msg, em[t].exc)
        \o <<"\n">>

\* The file sink was built with thresholds the spec admits.
ValidThresholds(h) == hdl[h].maxBytes > 0 /\ hdl[h].backupCount > 0

\* C13: no logger with the file sink on exists, and no file sink is
\* attached, whose max_file_size_mb or backup_count is zero or negative.
C13_ThresholdsRejected ==
    /\ \A i \in 1..Len(objs) :
          (objs[i].has_logger /\ objs[i].enable_file)
             => objs[i].max_file_size_mb > 0 /\ objs[i].backup_count > 0
    /\ \A h \in FileSinks : hdl[h].maxBytes > 0 /\ hdl[h].backupCount > 0

\* C19: on a file sink with valid thresholds, a record whose line would
\* take the active file over max_file_size_mb * 1024 * 1024 bytes makes the
\* handler rotate before it writes; the rotation deletes backup .B, moves
\* the backups up, makes the active file backup .1 and leaves an empty
\* active file; an emit rotates at most once; after a write of a line no
\* longer than the threshold the active file is no larger than the
\* threshold; and the records on disk and those deleted with an oldest
\* backup are exactly the records written, each once.
C19_RotateBeforeWrite ==
    /\ [][\A t \in Threads, h \in FileSinks :
            ValidThresholds(h) =>
              /\ (CheckStep(t, h)
                    /\ FileSize(disk[hdl[h].path][0]) + Bytes(LineOf(t, h)) > hdl[h].maxBytes)
                    => pc'[t] = "em_roll"
              /\ RollStep(t, h)
                    => LET f == disk[hdl[h].path]
                           g == disk'[hdl[h].path]
                           B == hdl[h].backupCount
                       IN  /\ g[0] = <<>> /\ g[1] = f[0]
                           /\ \A k \in DOMAIN f : (k >= 1 /\ k < B) => g[k + 1] = f[k]
                           /\ DOMAIN g \subseteq 0..B
                           /\ em'[t].rolled = 1
              /\ (WriteStep(t, h) /\ Bytes(LineOf(t, h)) <= hdl[h].maxBytes)
                    => FileSize(disk'[hdl[h].path][0]) <= hdl[h].maxBytes]_vars
    /\ [](\A h \in FileSinks :
            ValidThresholds(h) =>
              LET f == disk[hdl[h].path]
              IN  /\ Ids(f) \cup obs.dropped = obs.written
                  /\ Ids(f) \cap obs.dropped = {}
                  /\ \A k1, k2 \in DOMAIN f : \A j1 \in 1..Len(f[k1]), j2 \in 1..Len(f[k2]) :
                        f[k1][j1].id = f[k2][j2].id => k1 = k2 /\ j1 = j2)

\* The writes made to the files f, as <<file, position>>.
Writes(f) == UNION {{<<k, j>> : j \in 1..Len(f[k])} : k \in DOMAIN f}

\* The number of newline characters in the files f.
Newlines(f) ==
    Cardinality(UNION {{<<w, i>> : i \in {n \in 1..Len(f[w[1]][w[2]].data) :
                                            f[w[1]][w[2]].data[n] = "\n"}} :
                         w \in Writes(f)})

\* The characters of s that are no whitespace, in order.
Letters(s) == SelectSeq(s, LAMBDA ch : ch \notin Whitespace)

\* C16: in a file sink built with one_line_file_format on, every record
\* written is one line: it ends with its one newline, holds no other
\* whitespace than single blanks between other characters, and keeps every
\* other character of the formatted record, message and exception text
\* included; so the file holds as many lines as records were written to it.
C16_OneLinePerRecord ==
    /\ [](\A h \in FileSinks :
            hdl[h].one_line =>
              LET f == disk[hdl[h].path]
              IN  /\ \A w \in Writes(f) :
                        LET d == f[w[1]][w[2]].data
                        IN  /\ d[Len(d)] = "\n"
                            /\ \A n \in 1..(Len(d) - 1) :
                                  /\ d[n] \in Whitespace => d[n] = " "
                                  /\ d[n] = " " => n > 1 /\ d[n + 1] \notin Whitespace
                  /\ Ids(f) = obs.written
                  /\ Cardinality(Writes(f)) = Cardinality(obs.written)
                  /\ Newlines(f) = Cardinality(obs.written))
    /\ [][\A t \in Threads, h \in FileSinks :
            (WriteStep(t, h) /\ hdl[h].one_line)
               => LET f == disk'[hdl[h].path][0]
                  IN  /\ Len(f) = Len(disk[hdl[h].path][0]) + 1
                      /\ f[Len(f)].id = em[t].id
                      /\ Letters(f[Len(f)].data) =
                            Letters(Formatter_format(objs[em[t].inst].name, em[t].method,
                                                     em[t].msg, em[t].exc))]_vars

\* A one-line file sink holds two records, the second one written by
\* exception() inside an except block with a message of two lines.
C16_Witness ==
    \E h \in FileSinks :
        /\ hdl[h].one_line
        /\ Len(disk[hdl[h].path][0]) = 2
        /\ pc[Caller] = "em_handle"
        /\ em[Caller].todo = <<>>
        /\ em[Caller].method = "exception"
        /\ em[Caller].active
        /\ "\n" \in {em[Caller].msg[n] : n \in 1..Len(em[Caller].msg)}
        /\ em[Caller].id \in obs.written

\* The call of thread t returns.
ReturnStep(t) == pc[t] = "em_handle" /\ pc'[t] = "idle"

\* C18: exception(msg) inside an except block writes one record to the
\* file sink, at level ERROR, in which msg is followed by the error's type
\* name, a colon and the error's message; and an exception() call passes
\* the logger's level filter and reaches the console and the file sink
\* exactly when a record of severity ERROR does.
C18_ExceptionRecord ==
    [][\A t \in Threads :
         /\ \A h \in FileSinks :
              (WriteStep(t, h) /\ em[t].method = "exception" /\ em[t].active)
                 => LET f == disk'[hdl[h].path][0]
                        d == f[Len(f)].data
                    IN  /\ Len(f) = Len(disk[hdl[h].path][0]) + 1
                        /\ d[5] = "ERROR"
                        /\ \E b \in 21..Len(d) :
                              /\ d[b] = ActiveError.type
                              /\ SubSeq(d, b + 1, b + 2) = <<":", " ">>
                              /\ SubSeq(d, b + 3, b + 2 + Len(ActiveError.message))
                                    = ActiveError.message
                              /\ SubSeq(Letters(SubSeq(d, 21, b - 1)), 1,
                                        Len(Letters(em[t].msg))) = Letters(em[t].msg)
         /\ (ReturnStep(t) /\ em[t].method = "exception")
               => LET l == objs[em[t].inst].logger
                      reached(kind) ==
                          /\ ERROR >= loggers[l].level
                          /\ \E h \in Attached(l) : hdl[h].kind = kind /\ ERROR >= hdl[h].level
                  IN  /\ em[t].id \in obs.passed <=> ERROR >= loggers[l].level
                      /\ em[t].id \in obs.console <=> reached("console")
                      /\ em[t].id \in obs.written <=> reached("file")]_vars

\* exception() was called inside an except block on a logger with both
\* sinks, and its record has reached the console and the file.
C18_Witness ==
    /\ pc[Caller] = "em_handle"
    /\ em[Caller].todo = <<>>
    /\ em[Caller].method = "exception"
    /\ em[Caller].active
    /\ em[Caller].id \in obs.written
    /\ em[Caller].id \in obs.console

\* Thread t's file handler gives up the record: its rotation or its write
\* has failed.
FailStep(t) ==
    /\ pc[t] \in {"em_roll", "em_write"}
    /\ em[t].id \in obs'.failed \ obs.failed

\* C15: no emit call raises; when the rotation or the write of the file
\* sink fails, the call goes on and returns, the record is not written, and
\* the console sink, when the logger has one, has the record when the call
\* returns.
C15_EmitNeverRaises ==
    /\ [](~obs.raised)
    /\ [][\A t \in Threads :
            /\ FailStep(t)
                  => /\ pc'[t] = "em_handle"
                     /\ em'[t].id = em[t].id
                     /\ hlock' = {}
                     /\ disk' = disk
            /\ (ReturnStep(t) /\ em[t].id \in obs.failed)
                  => /\ obs'.calls = obs.calls
                     /\ (\E h \in Attached(objs[em[t].inst].logger) :
                            hdl[h].kind = "console")
                           => em[t].id \in obs.console]_vars

\* The rotation of the file sink has failed for a record that the console
\* sink has received, and the call is about to return.
C15_Witness ==
    /\ pc[Caller] = "em_handle"
    /\ em[Caller].todo = <<>>
    /\ em[Caller].id \in obs.failed
    /\ em[Caller].id \in obs.console
    /\ em[Caller].id \notin obs.written
    /\ em[Caller].msg = <<"X">>
    /\ Cardinality(obs.written) = 1
    /\ \A h \in FileSinks : DOMAIN disk[hdl[h].path] = {0}

\* The threads inside file handler h, between its size check and the end
\* of its write.
Inside(h) ==
    {t \in Threads : pc[t] \in {"em_roll", "em_write"} /\ Head(em[t].todo) = h}

\* C12: at most one thread at a time is inside a file handler, from its
\* size check over its rotation to the end of its write; every write in the
\* file is the complete line of one record, ending with its only newline;
\* and once every thread has made its MaxConcEmits calls, with no backup
\* deleted, the active file and the backups together hold exactly one line
\* per call.
C12_EmitsSerialized ==
    \A h \in FileSinks :
        LET f == disk[hdl[h].path]
        IN  /\ Cardinality(Inside(h)) <= 1
            /\ \A w \in Writes(f) :
                  \E msg \in SizeMsgs :
                      f[w[1]][w[2]].data =
                          Formatter_format("a", "info", msg, <<>>) \o <<"\n">>
            /\ \A w1, w2 \in Writes(f) :
                  f[w1[1]][w1[2]].id = f[w2[1]][w2[2]].id => w1 = w2
            /\ ((\A t \in Threads : pc[t] = "idle" /\ obs.calls[t] = MaxConcEmits)
                   /\ obs.dropped = {})
                  => /\ Cardinality(Writes(f)) = Cardinality(Threads) * MaxConcEmits
                     /\ Newlines(f) = Cardinality(Threads) * MaxConcEmits
                     /\ Ids(f) = 1..(Cardinality(Threads) * MaxConcEmits)

\* Every thread has made its calls, and the sink has rotated, deleted
\* nothing and written to the new active file.
C12_Witness ==
    \E h \in FileSinks :
        /\ \A t \in Threads : pc[t] = "idle" /\ obs.calls[t] = MaxConcEmits
        /\ obs.dropped = {}
        /\ 1 \in DOMAIN disk[hdl[h].path]
        /\ disk[hdl[h].path][0] # <<>>

\* A run of __init__ called directly on name n: a new LoomLogger object of
\* that name exists afterwards and no thread moved inside get_logger.
DirectInit(n) ==
    /\ Len(objs') = Len(objs) + 1
    /\ pc' = pc
    /\ objs'[Len(objs')].has_logger
    /\ objs'[Len(objs')].name = n

\* C21: a direct construction LoomLogger(n, ...) on a name whose logger has
\* at least one handler creates no handler, opens no file and leaves the
\* handler list of that logger as it was, whatever the two toggles say,
\* while the logger's level becomes the level of the new instance and its
\* propagate flag is off; the other loggers are untouched; and no logger
\* ever carries two console handlers or two file handlers.
C21_DirectConstructionFrame ==
    /\ [](\A n \in Names :
             LET kinds == KindsOf(loggers[n].handlers, hdl)
             IN  \A j, k \in DOMAIN kinds : kinds[j] = kinds[k] => j = k)
    /\ [][\A n \in Names :
             (DirectInit(n) /\ loggers[n].handlers # <<>>) =>
                 /\ loggers'[n].handlers = loggers[n].handlers
                 /\ hdl' = hdl
                 /\ dirs' = dirs /\ files' = files /\ disk' = disk
                 /\ loggers'[n].level = objs'[Len(objs')].level
                 /\ loggers'[n].propagate = FALSE
                 /\ \A o \in Names \ {n} : loggers'[o] = loggers[o]]_vars

\* Two direct constructions for "a" and no registry entry ever: the first
\* asked for a console handler only, the second for both sinks at another
\* level; the logger has the level of the second and still only the console
\* handler of the first, at the first's level.
C21_Witness ==
    /\ instances = <<>> /\ cleared = {}
    /\ \A t \in Threads : pc[t] = "idle"
    /\ Len(objs) = 2
    /\ objs[1].name = "a" /\ objs[2].name = "a"
    /\ objs[1].has_logger /\ objs[2].has_logger
    /\ objs[1].enable_console /\ ~objs[1].enable_file
    /\ objs[2].enable_console /\ objs[2].enable_file
    /\ objs[2].level # objs[1].level
    /\ loggers["a"].level = objs[2].level
    /\ loggers["a"].propagate = FALSE
    /\ Len(loggers["a"].handlers) = 1
    /\ hdl[loggers["a"].handlers[1]].kind = "console"
    /\ hdl[loggers["a"].handlers[1]].level = objs[1].level
    /\ Len(hdl) = 1

====
